---- MODULE Spec2Model ----
(***************************************************************************)
(* rezervo-cache: one run of src/main.rs.  The run computes the current    *)
(* and the next ISO week window, fetches the upstream schedule of each     *)
(* window, filters and deduplicates the records, and stores a week         *)
(* snapshot plus one entry per class in Redis (src/cache.rs).              *)
(*                                                                         *)
(* Dates are day numbers: day 0 is Saturday 2024-12-28.                    *)
(* An Option<T> is a sequence of length 0 (None) or 1 (Some).              *)
(***************************************************************************)
EXTENDS Integers, Sequences, FiniteSets, TLC

VARIABLES
    pc,            \* <<step, window>>: the position of main
    utc_today,     \* the UTC calendar date Utc::now() would return
    midnights,     \* how many times the UTC date has changed during the run
    current_week,  \* (current_week_start, current_week_end, current_iso_week)
    next_week,     \* (next_week_start, next_week_end, next_iso_week)
    requests,      \* the GET requests sent upstream, in order
    response,      \* per window: the upstream's answer to the request in flight
    fetch_result,  \* per window: "none", or "ok" / "err" once the fetch call returned
    items,         \* per window: the parsed body (Vec<Value>) of the last fetch
    seen_ids,      \* seen_ids of the latest fetch_brp_schedule_for_week call
    schedule,      \* per window: current_schedule / next_schedule
    class_idx,     \* position of the `for class in &..._schedule` loop
    store_calls,   \* every RedisCache store call made, in order, with its result
    summary,       \* the class counts printed at the end of the run
    exit_code      \* the process result: <<>> while running, <<0>> or <<1>>

vars == <<pc, utc_today, midnights, current_week, next_week, requests, response,
          fetch_result, items, seen_ids, schedule, class_idx, store_calls, summary, exit_code>>

----------------------------------------------------------------------------
(* Bounds *)

\* longest candidate list of the filter specification
MaxLen == 2
\* largest class identifier
MaxId == 2
\* longest upstream body of a whole run
MaxItems == 2
\* latest date (day number) at which a run starts
MaxDay == 1
\* most UTC date changes during one run
MaxMidnights == 1
\* latest date (day number) of the week window specification
MaxDate == 1500

----------------------------------------------------------------------------
(* Command line arguments *)

Subdomain == "sub"
BusinessUnit == 1
Windows == {"current", "next"}
NoWindow == "-"

----------------------------------------------------------------------------
(* Calendar: chrono's NaiveDate, Weekday and IsoWeek on day numbers *)

IsLeap(y) == (y % 4 = 0 /\ y % 100 # 0) \/ y % 400 = 0

DaysIn(y) == IF IsLeap(y) THEN 366 ELSE 365

\* the day number of January 1st of year y (2025-01-01 is day 4)
RECURSIVE JanFirst(_)
JanFirst(y) ==
    IF y = 2025 THEN 4
    ELSE IF y > 2025 THEN JanFirst(y - 1) + DaysIn(y - 1)
    ELSE JanFirst(y + 1) - DaysIn(y)

RECURSIVE YearFrom(_, _)
YearFrom(d, y) ==
    IF d < JanFirst(y) THEN YearFrom(d, y - 1)
    ELSE IF d >= JanFirst(y + 1) THEN YearFrom(d, y + 1)
    ELSE y

\* NaiveDate::year
YearOf(d) == YearFrom(d, 2025)

\* NaiveDate::ordinal, 1..366
Ordinal(d) == d - JanFirst(YearOf(d)) + 1

\* a mutation of NumDaysFromMonday: num_days_from_sunday
NumDaysFromSunday(d) == (d + 6) % 7

\* date.weekday().num_days_from_monday(): 0 for Monday .. 6 for Sunday
NumDaysFromMonday(d) == (d + 5) % 7

\* the number of ISO weeks of year y: 53 when January 1st is a Thursday, or a
\* Wednesday of a leap year
WeeksIn(y) ==
    LET p == NumDaysFromMonday(JanFirst(y))
    IN  IF p = 3 \/ (IsLeap(y) /\ p = 2) THEN 53 ELSE 52

\* date.iso_week(): the ISO 8601 year and week number of the date
IsoWeekOf(d) ==
    LET y == YearOf(d)
        w == (Ordinal(d) - (NumDaysFromMonday(d) + 1) + 10) \div 7
    IN  IF w < 1 THEN [year |-> y - 1, week |-> WeeksIn(y - 1)]
        ELSE IF w > WeeksIn(y) THEN [year |-> y + 1, week |-> 1]
        ELSE [year |-> y, week |-> w]

\* get_current_iso_week, given the date its Utc::now() returns
GetCurrentIsoWeekAt(today) ==
    LET iso_week == IsoWeekOf(today)
        days_from_monday == NumDaysFromMonday(today)
        week_start == today - days_from_monday
        week_end == week_start + 6
    IN  [week_start |-> week_start, week_end |-> week_end, iso_week |-> iso_week]

\* a mutation of GetNextIsoWeekAt: the ISO week is taken from today, not from
\* next_week_date
GetNextIsoWeekAtTodaysWeek(today) ==
    LET next_week_date == today + 7
        iso_week == IsoWeekOf(today)
        days_from_monday == NumDaysFromMonday(next_week_date)
        week_start == next_week_date - days_from_monday
        week_end == week_start + 6
    IN  [week_start |-> week_start, week_end |-> week_end, iso_week |-> iso_week]

\* get_next_iso_week, given the date its Utc::now() returns
GetNextIsoWeekAt(today) ==
    LET next_week_date == today + 7
        iso_week == IsoWeekOf(next_week_date)
        days_from_monday == NumDaysFromMonday(next_week_date)
        week_start == next_week_date - days_from_monday
        week_end == week_start + 6
    IN  [week_start |-> week_start, week_end |-> week_end, iso_week |-> iso_week]

\* {:02}: a number below 100 as two decimal digits
Pad2(n) == <<n \div 10, n % 10>>

\* format!("schedule:{}:{}:{}-W{:02}", subdomain, business_unit, year, week)
WeekKey(subdomain, business_unit, iso_week) ==
    <<"schedule", subdomain, business_unit, iso_week.year, "-W">> \o Pad2(iso_week.week)

\* format!("class:{}:{}:{}", subdomain, business_unit, class.id)
ClassKey(subdomain, business_unit, class) ==
    <<"class", subdomain, business_unit, class.id>>

\* a mutation of Ttl: one day instead of seven
TtlOneDay == 24 * 3600

\* the expiry of both set_ex calls
Ttl == 7 * 24 * 3600

----------------------------------------------------------------------------
(* Upstream records (serde_json::Value objects) and FilteredClass *)

\* JSON values an "id" field may hold
JNumber(n) == [type |-> "number", num |-> n]
JString == [type |-> "string", num |-> 0]

Ids == 1 .. MaxId
Names == {"a", "b"}
Timestamp == "2024-01-01T10:00:00"

\* One upstream record.  Each field is the Option that item.get(field) returns.
\* shape stands for the fields other than id and the booking window: "ok" when
\* they all decode into FilteredClass, "bad" when one is missing or mistyped.
Records ==
    [id : {<<>>, <<JString>>} \cup {<<JNumber(n)>> : n \in Ids},
     bookableEarliest : {<<>>, <<Timestamp>>},
     bookableLatest : {<<>>, <<Timestamp>>},
     shape : {"ok", "bad"},
     name : Names]

\* Value::as_i64
AsI64(v) == IF v.type = "number" THEN <<v.num>> ELSE <<>>

\* item.get("id").and_then(|v| v.as_i64())
ItemId(item) == IF item.id = <<>> THEN <<>> ELSE AsI64(item.id[1])

\* i64::to_string for a non-negative number: its decimal digits
RECURSIVE I64ToString(_)
I64ToString(n) == IF n < 10 THEN <<n>> ELSE I64ToString(n \div 10) \o <<n % 10>>

\* item.get("bookableEarliest").is_some() && item.get("bookableLatest").is_some()
HasBookingWindow(item) == item.bookableEarliest # <<>> /\ item.bookableLatest # <<>>

\* serde_json::from_value::<FilteredClass>(item) is Ok: every field that is not
\* an Option is present with its type
FromValueOk(item) ==
    /\ ItemId(item) # <<>>
    /\ item.bookableEarliest # <<>>
    /\ item.bookableLatest # <<>>
    /\ item.shape = "ok"

\* the FilteredClass that from_value builds
FromValue(item) ==
    [id |-> ItemId(item)[1],
     name |-> item.name,
     bookable_earliest |-> item.bookableEarliest,
     bookable_latest |-> item.bookableLatest]

\* a mutation of Eligible: bookableLatest treated as an optional field
EligibleWithoutLatest(item) ==
    /\ item.bookableEarliest # <<>>
    /\ ItemId(item) # <<>>
    /\ item.shape = "ok"

\* the two nested conditions under which an item is pushed to classes
Eligible(item) == HasBookingWindow(item) /\ FromValueOk(item)

\* a mutation of FilterItem: an id is marked seen only when its class is pushed
FilterItemMarkOnPush(st, item) ==
    LET id == ItemId(item)
    IN  IF id = <<>> THEN st
        ELSE LET id_string == I64ToString(id[1])
             IN  IF id_string \in st.seen_ids THEN st
                 ELSE IF Eligible(item)
                      THEN [classes |-> Append(st.classes, FromValue(item)),
                            seen_ids |-> st.seen_ids \cup {id_string}]
                      ELSE st

\* a mutation of FilterItem: a newly accepted class is put first
FilterItemPrepend(st, item) ==
    LET id == ItemId(item)
    IN  IF id = <<>> THEN st
        ELSE LET id_string == I64ToString(id[1])
             IN  IF id_string \in st.seen_ids THEN st
                 ELSE LET seen == st.seen_ids \cup {id_string}
                      IN  IF Eligible(item)
                          THEN [classes |-> <<FromValue(item)>> \o st.classes,
                                seen_ids |-> seen]
                          ELSE [classes |-> st.classes, seen_ids |-> seen]

\* the body of `for item in items`: st holds classes and seen_ids
FilterItem(st, item) ==
    LET id == ItemId(item)
    IN  IF id = <<>> THEN st
        ELSE LET id_string == I64ToString(id[1])
             IN  IF id_string \in st.seen_ids THEN st
                 ELSE LET seen == st.seen_ids \cup {id_string}
                      IN  IF Eligible(item)
                          THEN [classes |-> Append(st.classes, FromValue(item)),
                                seen_ids |-> seen]
                          ELSE [classes |-> st.classes, seen_ids |-> seen]

\* a mutation of FilterLoop: an item without an integer id ends the loop
\* (`break` where the code falls through to the next item)
RECURSIVE FilterLoopBreak(_, _)
FilterLoopBreak(list, st) ==
    IF list = <<>> THEN st
    ELSE IF ItemId(Head(list)) = <<>> THEN st
    ELSE FilterLoopBreak(Tail(list), FilterItem(st, Head(list)))

\* the loop `for item in items`, from the state st
RECURSIVE FilterLoop(_, _)
FilterLoop(list, st) ==
    IF list = <<>> THEN st
    ELSE FilterLoop(Tail(list), FilterItem(st, Head(list)))

\* serde_json::to_string of one FilteredClass: the serde renames applied
ClassJson(class) ==
    [id |-> class.id,
     name |-> class.name,
     bookableEarliest |-> class.bookable_earliest,
     bookableLatest |-> class.bookable_latest]

\* serde_json::to_string of the schedule: a JSON array in the slice's order
ScheduleJson(classes) == [k \in 1 .. Len(classes) |-> ClassJson(classes[k])]

----------------------------------------------------------------------------
(* The upstream's answers *)

\* every list over S of length at most n
ListsUpTo(S, n) == UNION {[1 .. k -> S] : k \in 0 .. n}

NoResponse == [kind |-> "none", status |-> 0, parses |-> FALSE, list |-> <<>>]

\* client.get(..).send() returned Err
TransportError == [kind |-> "transport_error", status |-> 0, parses |-> FALSE, list |-> <<>>]

\* an HTTP response: parses says whether the body is a JSON array of values,
\* list is that array
HttpResponse(status, parses, list) ==
    [kind |-> "http", status |-> status, parses |-> parses, list |-> list]

\* the records the upstream sends during a whole run: class 1 and class 2,
\* each with both booking fields and decodable
RunRecords ==
    {r \in Records :
        /\ r.name = "a" /\ r.shape = "ok"
        /\ r.bookableEarliest # <<>> /\ r.bookableLatest # <<>>
        /\ r.id \in {<<JNumber(1)>>, <<JNumber(2)>>}}

RunBodies == ListsUpTo(RunRecords, MaxItems)

\* what the upstream may answer to one request of a run
RunResponses ==
    {TransportError, HttpResponse(500, TRUE, <<>>), HttpResponse(200, FALSE, <<>>)}
        \cup {HttpResponse(200, TRUE, l) : l \in RunBodies}

\* StatusCode::is_success
IsSuccess(status) == 200 <= status /\ status <= 299

\* a mutation of FetchFails: the status of the response is not looked at
FetchFailsUnlessParsed(r) == r.kind = "transport_error" \/ ~r.parses

\* fetch_brp_schedule_for_week returns Err: send failed, the status is not a
\* success, or the body is not a JSON array
FetchFails(r) == r.kind = "transport_error" \/ ~IsSuccess(r.status) \/ ~r.parses

----------------------------------------------------------------------------
(* The run *)

Week(w) == IF w = "current" THEN current_week ELSE next_week

NoWeek == [week_start |-> 0, week_end |-> 0, iso_week |-> [year |-> 0, week |-> 0]]

Init ==
    /\ pc = <<"new_cache", NoWindow>>
    /\ utc_today \in 0 .. MaxDay
    /\ midnights = 0
    /\ current_week = NoWeek
    /\ next_week = NoWeek
    /\ requests = <<>>
    /\ response = [w \in Windows |-> NoResponse]
    /\ fetch_result = [w \in Windows |-> "none"]
    /\ items = [w \in Windows |-> <<>>]
    /\ seen_ids = {}
    /\ schedule = [w \in Windows |-> <<>>]
    /\ class_idx = 0
    /\ store_calls = <<>>
    /\ summary = <<>>
    /\ exit_code = <<>>

\* the process ends with Err from main
ExitErr ==
    /\ pc' = <<"exit_err", NoWindow>>
    /\ exit_code' = <<1>>

\* RedisCache::new(&args.redis_url)?: Client::open only parses the URL
RedisCacheNew ==
    /\ pc = <<"new_cache", NoWindow>>
    /\ \/ pc' = <<"current_week", NoWindow>> /\ UNCHANGED exit_code
       \/ ExitErr
    /\ UNCHANGED <<utc_today, midnights, current_week, next_week, requests, response, fetch_result,
                   items, seen_ids, schedule, class_idx, store_calls, summary>>

\* the UTC date changes between the clock read of get_current_iso_week and that
\* of get_next_iso_week (the date of the first read is any date of Init, and
\* the clock is not read after the second)
Midnight ==
    /\ pc = <<"next_week", NoWindow>>
    /\ midnights < MaxMidnights
    /\ utc_today' = utc_today + 1
    /\ midnights' = midnights + 1
    /\ UNCHANGED <<pc, current_week, next_week, requests, response, fetch_result, items, seen_ids,
                   schedule, class_idx, store_calls, summary, exit_code>>

GetCurrentIsoWeek ==
    /\ pc = <<"current_week", NoWindow>>
    /\ current_week' = GetCurrentIsoWeekAt(utc_today)
    /\ pc' = <<"next_week", NoWindow>>
    /\ UNCHANGED <<utc_today, midnights, next_week, requests, response, fetch_result, items, seen_ids,
                   schedule, class_idx, store_calls, summary, exit_code>>

GetNextIsoWeek ==
    /\ pc = <<"next_week", NoWindow>>
    /\ next_week' = GetNextIsoWeekAt(utc_today)
    /\ pc' = <<"fetch", "current">>
    /\ UNCHANGED <<utc_today, midnights, current_week, requests, response, fetch_result, items,
                   seen_ids, schedule, class_idx, store_calls, summary, exit_code>>

\* period.start and period.end of the request for a week
Period(week) == [start |-> <<week.week_start, "T00:00:00.000Z">>,
                 end |-> <<week.week_end, "T23:59:59.999Z">>]

\* client.get(&url).query(&params).send(): the request leaves
SendRequest(w) ==
    /\ pc = <<"fetch", w>>
    /\ requests' = Append(requests, [window |-> w, subdomain |-> Subdomain,
                                     business_unit |-> BusinessUnit,
                                     period |-> Period(Week(w))])
    /\ pc' = <<"await", w>>
    /\ UNCHANGED <<utc_today, midnights, current_week, next_week, response, fetch_result, items,
                   seen_ids, schedule, class_idx, store_calls, summary, exit_code>>

\* the upstream answers the request in flight; a fetch that blocks forever is a
\* request that is never answered
Respond(w) ==
    /\ pc = <<"await", w>>
    /\ response[w] = NoResponse
    /\ \E r \in RunResponses : response' = [response EXCEPT ![w] = r]
    /\ UNCHANGED <<pc, utc_today, midnights, current_week, next_week, requests, fetch_result, items,
                   seen_ids, schedule, class_idx, store_calls, summary, exit_code>>

\* a mutation of NewFilterState: seen_ids outlives the call
CarriedFilterState == [classes |-> <<>>, seen_ids |-> seen_ids]

\* let mut classes = Vec::new(); let mut seen_ids = HashSet::new();
NewFilterState == [classes |-> <<>>, seen_ids |-> {}]

\* a mutation of AfterFetch: the current week is stored as soon as it is fetched
AfterFetchStoreFirst(w) == <<"store_week", "current">>

\* where main goes on after the fetch of window w
AfterFetch(w) == IF w = "current" THEN <<"fetch", "next">> ELSE <<"store_week", "current">>

\* a mutation of FetchReturn: a failed request is sent once more
FetchReturnRetry(w) ==
    /\ pc = <<"await", w>>
    /\ response[w] # NoResponse
    /\ IF FetchFails(response[w])
       THEN IF Len(SelectSeq(requests, LAMBDA r : r.window = w)) < 2
            THEN /\ pc' = <<"fetch", w>>
                 /\ response' = [response EXCEPT ![w] = NoResponse]
                 /\ UNCHANGED <<fetch_result, items, seen_ids, schedule, exit_code>>
            ELSE /\ ExitErr
                 /\ fetch_result' = [fetch_result EXCEPT ![w] = "err"]
                 /\ UNCHANGED <<items, seen_ids, schedule, response>>
       ELSE LET st == FilterLoop(response[w].list, NewFilterState)
            IN  /\ items' = [items EXCEPT ![w] = response[w].list]
                /\ seen_ids' = st.seen_ids
                /\ schedule' = [schedule EXCEPT ![w] = st.classes]
                /\ fetch_result' = [fetch_result EXCEPT ![w] = "ok"]
                /\ pc' = AfterFetch(w)
                /\ UNCHANGED <<exit_code, response>>
    /\ UNCHANGED <<utc_today, midnights, current_week, next_week, requests,
                   class_idx, store_calls, summary>>

\* fetch_brp_schedule_for_week(..).await? from the arrival of the response on
FetchReturn(w) ==
    /\ pc = <<"await", w>>
    /\ response[w] # NoResponse
    /\ IF FetchFails(response[w])
       THEN /\ ExitErr
            /\ fetch_result' = [fetch_result EXCEPT ![w] = "err"]
            /\ UNCHANGED <<items, seen_ids, schedule>>
       ELSE LET st == FilterLoop(response[w].list, NewFilterState)
            IN  /\ items' = [items EXCEPT ![w] = response[w].list]
                /\ seen_ids' = st.seen_ids
                /\ schedule' = [schedule EXCEPT ![w] = st.classes]
                /\ fetch_result' = [fetch_result EXCEPT ![w] = "ok"]
                /\ pc' = AfterFetch(w)
                /\ UNCHANGED exit_code
    /\ UNCHANGED <<utc_today, midnights, current_week, next_week, requests, response,
                   class_idx, store_calls, summary>>

\* the outcomes of one store call: Ok, or Err from get_connection, to_string
\* or set_ex
StoreResults == {"ok", "err"}

\* where main goes on after class number idx of window w has been handled
AfterClass(w, idx) ==
    IF idx < Len(schedule[w]) THEN <<"store_class", w>>
    ELSE IF w = "current" THEN <<"store_week", "next">>
    ELSE <<"report", NoWindow>>

\* redis_cache.store_schedule_with_week(.., &iso_week, &schedule), its result
\* turned into a warning or a message
StoreScheduleWithWeek(w) ==
    /\ pc = <<"store_week", w>>
    /\ \E res \in StoreResults :
         store_calls' = Append(store_calls,
            [op |-> "store_schedule_with_week", window |-> w,
             key |-> WeekKey(Subdomain, BusinessUnit, Week(w).iso_week),
             value |-> ScheduleJson(schedule[w]), ttl |-> Ttl, result |-> res])
    /\ class_idx' = 0
    /\ pc' = AfterClass(w, 0)
    /\ UNCHANGED <<utc_today, midnights, current_week, next_week, requests, response, fetch_result,
                   items, seen_ids, schedule, summary, exit_code>>

\* a mutation of StoreClass: the error of store_class is propagated with `?`
StoreClassFatal(w) ==
    /\ pc = <<"store_class", w>>
    /\ LET class == schedule[w][class_idx + 1]
       IN  \E res \in StoreResults :
             /\ store_calls' = Append(store_calls,
                   [op |-> "store_class", window |-> w,
                    key |-> ClassKey(Subdomain, BusinessUnit, class),
                    value |-> <<ClassJson(class)>>, ttl |-> Ttl, result |-> res])
             /\ IF res = "err"
                THEN ExitErr
                ELSE pc' = AfterClass(w, class_idx + 1) /\ UNCHANGED exit_code
    /\ class_idx' = class_idx + 1
    /\ UNCHANGED <<utc_today, midnights, current_week, next_week, requests, response,
                   fetch_result, items, seen_ids, schedule, summary>>

\* a mutation of StoreClass: a failed store_class is tried once more
StoreClassRetry(w) ==
    /\ pc = <<"store_class", w>>
    /\ LET class == schedule[w][class_idx + 1]
           call(res) == [op |-> "store_class", window |-> w,
                         key |-> ClassKey(Subdomain, BusinessUnit, class),
                         value |-> <<ClassJson(class)>>, ttl |-> Ttl, result |-> res]
       IN  \/ store_calls' = Append(store_calls, call("ok"))
           \/ \E res \in StoreResults :
                 store_calls' = Append(Append(store_calls, call("err")), call(res))
    /\ class_idx' = class_idx + 1
    /\ pc' = AfterClass(w, class_idx + 1)
    /\ UNCHANGED <<utc_today, midnights, current_week, next_week, requests, response, fetch_result,
                   items, seen_ids, schedule, summary, exit_code>>

\* one turn of `for class in &schedule`: redis_cache.store_class(.., class)
StoreClass(w) ==
    /\ pc = <<"store_class", w>>
    /\ LET class == schedule[w][class_idx + 1]
       IN  \E res \in StoreResults :
             store_calls' = Append(store_calls,
                [op |-> "store_class", window |-> w,
                 key |-> ClassKey(Subdomain, BusinessUnit, class),
                 value |-> <<ClassJson(class)>>, ttl |-> Ttl, result |-> res])
    /\ class_idx' = class_idx + 1
    /\ pc' = AfterClass(w, class_idx + 1)
    /\ UNCHANGED <<utc_today, midnights, current_week, next_week, requests, response, fetch_result,
                   items, seen_ids, schedule, summary, exit_code>>

\* the two closing println! and Ok(())
Report ==
    /\ pc = <<"report", NoWindow>>
    /\ summary' = <<[window |-> "current", cached |-> Len(schedule["current"]),
                     week |-> current_week.iso_week],
                    [window |-> "next", cached |-> Len(schedule["next"]),
                     week |-> next_week.iso_week]>>
    /\ exit_code' = <<0>>
    /\ pc' = <<"exit_ok", NoWindow>>
    /\ UNCHANGED <<utc_today, midnights, current_week, next_week, requests, response, fetch_result,
                   items, seen_ids, schedule, class_idx, store_calls>>

Next ==
    \/ RedisCacheNew
    \/ Midnight
    \/ GetCurrentIsoWeek
    \/ GetNextIsoWeek
    \/ \E w \in Windows : SendRequest(w)
    \/ \E w \in Windows : Respond(w)
    \/ \E w \in Windows : FetchReturn(w)
    \/ \E w \in Windows : StoreScheduleWithWeek(w)
    \/ \E w \in Windows : StoreClass(w)
    \/ Report

Spec == Init /\ [][Next]_vars

\* the run under the assumption that every call returns: main is one
\* sequential task, so whenever it has a next step it takes one, and every
\* request in flight is answered
FairSpec == Spec /\ WF_vars(Next)

----------------------------------------------------------------------------
(* The filter on its own: the run stands where the current week's request  *)
(* is in flight, and the upstream answers with any list of records         *)

FilterBodies == ListsUpTo(Records, MaxLen)

FilterInit ==
    /\ pc = <<"await", "current">>
    /\ utc_today = 0
    /\ midnights = 0
    /\ current_week = GetCurrentIsoWeekAt(0)
    /\ next_week = GetNextIsoWeekAt(0)
    /\ requests = <<[window |-> "current", subdomain |-> Subdomain,
                     business_unit |-> BusinessUnit,
                     period |-> Period(GetCurrentIsoWeekAt(0))]>>
    /\ \E l \in FilterBodies :
         response = [w \in Windows |->
                        IF w = "current" THEN HttpResponse(200, TRUE, l) ELSE NoResponse]
    /\ fetch_result = [w \in Windows |-> "none"]
    /\ items = [w \in Windows |-> <<>>]
    /\ seen_ids = {}
    /\ schedule = [w \in Windows |-> <<>>]
    /\ class_idx = 0
    /\ store_calls = <<>>
    /\ summary = <<>>
    /\ exit_code = <<>>

FilterNext == FetchReturn("current")

FilterSpec == FilterInit /\ [][FilterNext]_vars

----------------------------------------------------------------------------
(* Properties *)

RunFailed == pc = <<"exit_err", NoWindow>>
RunSucceeded == pc = <<"exit_ok", NoWindow>>

\* a response that is no list of records: the transport failed, the status is
\* outside 200..299, or the body does not parse
FailedResponse(r) ==
    r.kind = "transport_error" \/ r.status < 200 \/ r.status > 299 \/ ~r.parses

StoreCallsFor(w) == {k \in 1 .. Len(store_calls) : store_calls[k].window = w}

\* C1: when the fetch of a window has failed (transport error, non-success
\* status, unparsable body), the run has ended with a non-zero exit and no
\* store call, week snapshot or class, was ever made for that window.
C1_FailedFetchIsFatal ==
    \A w \in Windows :
        (/\ response[w] # NoResponse
         /\ FailedResponse(response[w])
         /\ pc # <<"await", w>>)
        => /\ RunFailed
           /\ exit_code = <<1>>
           /\ StoreCallsFor(w) = {}

\* the next week's fetch was answered with HTTP 500 after the current week's
\* fetch succeeded, and the run has ended
C1_Witness ==
    /\ RunFailed
    /\ fetch_result = [w \in Windows |-> IF w = "current" THEN "ok" ELSE "err"]
    /\ response["next"].kind = "http" /\ response["next"].status = 500
    /\ schedule["current"] # <<>>

\* the store calls a run with these two schedules has to make, in order
ExpectedStoreCalls ==
    LET c == Len(schedule["current"])
        n == Len(schedule["next"])
    IN  [k \in 1 .. (2 + c + n) |->
            IF k = 1 THEN [op |-> "store_schedule_with_week", window |-> "current", id |-> 0]
            ELSE IF k <= 1 + c
                 THEN [op |-> "store_class", window |-> "current",
                       id |-> schedule["current"][k - 1].id]
            ELSE IF k = 2 + c
                 THEN [op |-> "store_schedule_with_week", window |-> "next", id |-> 0]
            ELSE [op |-> "store_class", window |-> "next",
                  id |-> schedule["next"][k - 2 - c].id]]

\* the store calls made so far: operation, window and class
StoreCallsMade ==
    [k \in 1 .. Len(store_calls) |->
        [op |-> store_calls[k].op, window |-> store_calls[k].window,
         id |-> IF store_calls[k].op = "store_class"
                THEN store_calls[k].value[1].id ELSE 0]]

BothFetched == \A w \in Windows : fetch_result[w] = "ok"

\* C2: once both fetches have succeeded the run never fails, whatever store
\* calls return Err: it always has a next step until it has exited with 0, and
\* by then every store call of both windows has been made, in order.
C2_StoreFailuresNonFatal ==
    BothFetched =>
        /\ ~RunFailed
        /\ exit_code # <<1>>
        /\ RunSucceeded \/ ENABLED Next
        /\ \A k \in 1 .. Len(store_calls) :
              k <= Len(ExpectedStoreCalls) /\ StoreCallsMade[k] = ExpectedStoreCalls[k]
        /\ RunSucceeded =>
              /\ exit_code = <<0>>
              /\ Len(store_calls) = Len(ExpectedStoreCalls)

\* a run that exited with 0 although every one of its store calls failed, with
\* classes in both windows
C2_Witness ==
    /\ RunSucceeded
    /\ exit_code = <<0>>
    /\ schedule["current"] # <<>> /\ schedule["next"] # <<>>
    /\ \A k \in 1 .. Len(store_calls) : store_calls[k].result = "err"

Other(w) == IF w = "current" THEN "next" ELSE "current"

\* C3: the two windows are independent: when the fetch of one window has
\* failed and the run has ended, the other window's request was sent and, its
\* fetch having succeeded, its week snapshot and classes were stored.
C3_OtherWindowProceeds ==
    \A w \in Windows :
        (RunFailed /\ fetch_result[w] = "err")
        => /\ \E k \in 1 .. Len(requests) : requests[k].window = Other(w)
           /\ fetch_result[Other(w)] = "ok"
                => Cardinality(StoreCallsFor(Other(w))) = 1 + Len(schedule[Other(w)])

----------------------------------------------------------------------------
(* Properties of the filter *)

Filtered(w) == fetch_result[w] = "ok"

\* the record has an "id" that is an integer
HasIntId(r) == r.id # <<>> /\ r.id[1].type = "number"

IdNum(r) == r.id[1].num

\* the record carries both booking fields and decodes as a ScheduleClass
Bookable(r) ==
    /\ HasIntId(r)
    /\ r.bookableEarliest # <<>>
    /\ r.bookableLatest # <<>>
    /\ r.shape = "ok"

\* the positions of the records of list l whose identifier is n
Occurrences(l, n) == {i \in 1 .. Len(l) : HasIntId(l[i]) /\ IdNum(l[i]) = n}

FirstOccurrence(l, n) ==
    CHOOSE i \in Occurrences(l, n) : \A j \in Occurrences(l, n) : i <= j

\* the positions of the classes of cs whose identifier is n
ClassesWithId(cs, n) == {k \in 1 .. Len(cs) : cs[k].id = n}

\* the class is what the record says: identifier, name and booking window
SameAs(class, r) ==
    /\ HasIntId(r) /\ class.id = IdNum(r)
    /\ class.name = r.name
    /\ class.bookable_earliest = r.bookableEarliest
    /\ class.bookable_latest = r.bookableLatest

\* C4: an identifier of which at least one occurrence in the candidate list
\* carries both booking fields and decodes has exactly one class in the
\* filtered output.
C4_OneClassPerBookableId ==
    Filtered("current") =>
        \A n \in Ids :
            (\E i \in Occurrences(items["current"], n) : Bookable(items["current"][i]))
            => Cardinality(ClassesWithId(schedule["current"], n)) = 1

\* C5: the filtered output holds no two classes with one identifier, and each
\* of its classes is the decoded first occurrence of its identifier.
C5_FirstOccurrenceWins ==
    Filtered("current") =>
        \A k \in 1 .. Len(schedule["current"]) :
            LET class == schedule["current"][k]
                occ == Occurrences(items["current"], class.id)
            IN  /\ ClassesWithId(schedule["current"], class.id) = {k}
                /\ occ # {}
                /\ Bookable(items["current"][FirstOccurrence(items["current"], class.id)])
                /\ SameAs(class, items["current"][FirstOccurrence(items["current"], class.id)])

\* a list with two bookable records of one identifier and different names was
\* filtered, and the class kept has the first record's name
C5_Witness ==
    /\ Filtered("current")
    /\ \E i, j \in 1 .. Len(items["current"]) :
         LET a == items["current"][i]
             b == items["current"][j]
         IN  /\ i < j /\ Bookable(a) /\ Bookable(b)
             /\ IdNum(a) = IdNum(b) /\ a.name # b.name
             /\ \E k \in 1 .. Len(schedule["current"]) : SameAs(schedule["current"][k], a)

\* the record lacks one of the two booking fields
LacksBookingField(r) == r.bookableEarliest = <<>> \/ r.bookableLatest = <<>>

\* C6: no class of the filtered output is a record that lacks bookableEarliest
\* or bookableLatest: every class has both, and is a record of the list that
\* has both.
C6_BookingFieldsPresent ==
    Filtered("current") =>
        /\ \A k \in 1 .. Len(schedule["current"]) :
              /\ schedule["current"][k].bookable_earliest # <<>>
              /\ schedule["current"][k].bookable_latest # <<>>
              /\ \E i \in 1 .. Len(items["current"]) :
                    /\ ~LacksBookingField(items["current"][i])
                    /\ SameAs(schedule["current"][k], items["current"][i])
        /\ \A i \in 1 .. Len(items["current"]) :
              LacksBookingField(items["current"][i])
              => \A k \in 1 .. Len(schedule["current"]) :
                    ~SameAs(schedule["current"][k], items["current"][i])

\* a list was filtered in which a record that lacks only bookableLatest came
\* first for its identifier: the output has other classes, none for it
C6_Witness ==
    /\ Filtered("current")
    /\ schedule["current"] # <<>>
    /\ \E i \in 1 .. Len(items["current"]) :
         LET r == items["current"][i]
         IN  /\ HasIntId(r) /\ r.shape = "ok"
             /\ r.bookableEarliest # <<>> /\ r.bookableLatest = <<>>
             /\ ClassesWithId(schedule["current"], IdNum(r)) = {}

\* list l without its element number i
RemoveAt(l, i) == [k \in 1 .. (Len(l) - 1) |-> IF k < i THEN l[k] ELSE l[k + 1]]

\* the classes of cs whose identifier is not n
WithoutId(cs, n) == LET Keep(c) == c.id # n IN SelectSeq(cs, Keep)

\* C8: the filter returns a result for every list of records; a record that is
\* not an eligible class (no integer id, or no decoding) yields no class, and
\* the classes of every other identifier are those the list without that
\* record yields.
C8_MalformedRecordSkipped ==
    pc # <<"await", "current">> =>
        /\ Filtered("current") /\ ~RunFailed /\ exit_code = <<>>
        /\ Len(schedule["current"])
              <= Cardinality({i \in 1 .. Len(items["current"]) : Bookable(items["current"][i])})
        /\ \A i \in 1 .. Len(items["current"]) :
              LET r == items["current"][i]
                  rest == FilterLoop(RemoveAt(items["current"], i), NewFilterState).classes
              IN  ~Bookable(r) =>
                    IF HasIntId(r)
                    THEN /\ WithoutId(schedule["current"], IdNum(r)) = WithoutId(rest, IdNum(r))
                         /\ i = FirstOccurrence(items["current"], IdNum(r))
                               => ClassesWithId(schedule["current"], IdNum(r)) = {}
                    ELSE schedule["current"] = rest

\* a list was filtered in which a record without an integer id, or one that
\* does not decode, comes before a bookable record, which is in the output
C8_Witness ==
    /\ Filtered("current")
    /\ \E i, j \in 1 .. Len(items["current"]) :
         /\ i < j
         /\ ~HasIntId(items["current"][i]) \/ items["current"][i].shape = "bad"
         /\ Bookable(items["current"][j])
         /\ \E k \in 1 .. Len(schedule["current"]) :
               SameAs(schedule["current"][k], items["current"][j])

----------------------------------------------------------------------------
(* Properties of the run's schedules and windows *)

\* the identifiers of a list of classes or of JSON objects, in its order
IdsInOrder(cs) == [k \in 1 .. Len(cs) |-> cs[k].id]

\* C7: the classes of a window's schedule stand in the order in which their
\* identifiers first occur in the upstream list, and every week snapshot
\* written holds the classes of its schedule in that order.
C7_UpstreamOrderKept ==
    /\ \A w \in Windows :
          Filtered(w) =>
              \A k1, k2 \in 1 .. Len(schedule[w]) :
                  k1 < k2 =>
                      FirstOccurrence(items[w], schedule[w][k1].id)
                          < FirstOccurrence(items[w], schedule[w][k2].id)
    /\ \A k \in 1 .. Len(store_calls) :
          store_calls[k].op = "store_schedule_with_week"
          => /\ IdsInOrder(store_calls[k].value) = IdsInOrder(schedule[store_calls[k].window])
             /\ \A j \in 1 .. Len(store_calls[k].value) :
                   store_calls[k].value[j].name = schedule[store_calls[k].window][j].name

\* the upstream listed class 2 before class 1, and a week snapshot with the
\* identifiers 2, 1 was written
C7_Witness ==
    \E k \in 1 .. Len(store_calls) :
        /\ store_calls[k].op = "store_schedule_with_week"
        /\ IdsInOrder(store_calls[k].value) = <<2, 1>>
        /\ FirstOccurrence(items[store_calls[k].window], 2)
              < FirstOccurrence(items[store_calls[k].window], 1)

\* C9: two filter runs on one candidate list give one output, and an
\* identifier accepted in the current week does not suppress the record of
\* that identifier in the next week.
C9_SeenIdsPerWindow ==
    BothFetched =>
        /\ items["current"] = items["next"] => schedule["current"] = schedule["next"]
        /\ \A n \in Ids :
              (/\ ClassesWithId(schedule["current"], n) # {}
               /\ Occurrences(items["next"], n) # {}
               /\ Bookable(items["next"][FirstOccurrence(items["next"], n)]))
              => ClassesWithId(schedule["next"], n) # {}

\* both windows were fetched with the same non-empty list, and class 1 is in
\* both schedules
C9_Witness ==
    /\ BothFetched
    /\ items["current"] = items["next"]
    /\ ClassesWithId(schedule["current"], 1) # {}
    /\ ClassesWithId(schedule["next"], 1) # {}

\* C10: the next week's window starts exactly 7 days after the current
\* week's, the day after the current week's window ends.
C10_NextWeekIsAdjacent ==
    next_week # NoWeek =>
        /\ next_week.week_start = current_week.week_start + 7
        /\ next_week.week_start = current_week.week_end + 1

----------------------------------------------------------------------------
(* The week windows on their own: the run stands before its first clock    *)
(* read, on any date up to MaxDate                                         *)

WeekInit ==
    /\ pc = <<"current_week", NoWindow>>
    /\ utc_today \in 0 .. MaxDate
    /\ midnights = 0
    /\ current_week = NoWeek
    /\ next_week = NoWeek
    /\ requests = <<>>
    /\ response = [w \in Windows |-> NoResponse]
    /\ fetch_result = [w \in Windows |-> "none"]
    /\ items = [w \in Windows |-> <<>>]
    /\ seen_ids = {}
    /\ schedule = [w \in Windows |-> <<>>]
    /\ class_idx = 0
    /\ store_calls = <<>>
    /\ summary = <<>>
    /\ exit_code = <<>>

WeekNext == GetCurrentIsoWeek \/ Midnight \/ GetNextIsoWeek

WeekSpec == WeekInit /\ [][WeekNext]_vars

\* day 2 is Monday 2024-12-30, day 1 is Sunday 2024-12-29
IsMonday(d) == (d - 2) % 7 = 0
IsSunday(d) == (d - 1) % 7 = 0

\* the date get_current_iso_week read: the clock has only moved since then
CurrentReferenceDate == utc_today - midnights

\* the date get_next_iso_week computes with: 7 days after the date it read
NextReferenceDate == utc_today + 7

\* C11: each computed window starts on a Monday, ends 6 days later on a
\* Sunday, and contains its reference date: today for the current week, today
\* plus 7 days for the next week.
C11_WindowIsMondayToSunday ==
    /\ current_week # NoWeek =>
          /\ IsMonday(current_week.week_start)
          /\ current_week.week_end = current_week.week_start + 6
          /\ IsSunday(current_week.week_end)
          /\ current_week.week_start <= CurrentReferenceDate
          /\ CurrentReferenceDate <= current_week.week_end
    /\ next_week # NoWeek =>
          /\ IsMonday(next_week.week_start)
          /\ next_week.week_end = next_week.week_start + 6
          /\ IsSunday(next_week.week_end)
          /\ next_week.week_start <= NextReferenceDate
          /\ NextReferenceDate <= next_week.week_end

\* both windows were computed on a Sunday more than a year after day 0: each
\* window ends on its reference date
C11_Witness ==
    /\ next_week # NoWeek
    /\ midnights = 0
    /\ utc_today > 366
    /\ IsSunday(utc_today)
    /\ current_week.week_end = utc_today
    /\ next_week.week_end = utc_today + 7

----------------------------------------------------------------------------
(* Properties of the store calls *)

WeekCalls(w) ==
    {k \in StoreCallsFor(w) : store_calls[k].op = "store_schedule_with_week"}

ClassCalls(w) == {k \in StoreCallsFor(w) : store_calls[k].op = "store_class"}

\* C12: every store call, week snapshot or class, of either window, carries a
\* time-to-live of exactly 604800 seconds.
C12_TtlIsSevenDays ==
    \A k \in 1 .. Len(store_calls) : store_calls[k].ttl = 604800

\* a finished run that stored a week snapshot and two classes in each window
C12_Witness ==
    /\ RunSucceeded
    /\ \A w \in Windows : WeekCalls(w) # {} /\ Cardinality(ClassCalls(w)) = 2

\* the request that was sent for window w
RequestFor(w) == requests[CHOOSE r \in 1 .. Len(requests) : requests[r].window = w]

\* the JSON object is the class: its identifier, name and booking window
JsonOf(json, class) ==
    /\ json.id = class.id
    /\ json.name = class.name
    /\ json.bookableEarliest = class.bookable_earliest
    /\ json.bookableLatest = class.bookable_latest

\* C13: a week snapshot is stored under schedule:{subdomain}:{businessUnit}:
\* {isoYear}-W{isoWeek, two digits} of the ISO week of the Monday..Sunday span
\* that was requested for its window, with that window's filtered classes as
\* its value, and never under the other window's key; a class is stored under
\* class:{subdomain}:{businessUnit}:{its id} with itself as the value.
C13_KeysNameTheirContent ==
    /\ \A w \in Windows : \A k \in WeekCalls(w) :
          LET period == RequestFor(w).period
              iw == IsoWeekOf(period.start[1])
          IN  /\ IsMonday(period.start[1])
              /\ period.end[1] = period.start[1] + 6
              /\ IsoWeekOf(period.end[1]) = iw
              /\ store_calls[k].key
                    = <<"schedule", Subdomain, BusinessUnit, iw.year, "-W",
                        iw.week \div 10, iw.week % 10>>
              /\ Len(store_calls[k].value) = Len(schedule[w])
              /\ \A j \in 1 .. Len(schedule[w]) :
                    JsonOf(store_calls[k].value[j], schedule[w][j])
              /\ \A k2 \in WeekCalls(Other(w)) : store_calls[k2].key # store_calls[k].key
    /\ \A w \in Windows : \A k \in ClassCalls(w) :
          /\ Len(store_calls[k].value) = 1
          /\ store_calls[k].key
                = <<"class", Subdomain, BusinessUnit, store_calls[k].value[1].id>>
          /\ \E j \in 1 .. Len(schedule[w]) :
                JsonOf(store_calls[k].value[1], schedule[w][j])

\* a finished run whose two windows hold different classes: the current
\* week's snapshot is under 2024-W52, the next week's under 2025-W01
C13_Witness ==
    /\ RunSucceeded
    /\ schedule["current"] # <<>> /\ schedule["next"] # <<>>
    /\ schedule["current"] # schedule["next"]
    /\ \E k \in WeekCalls("current") :
          store_calls[k].key = <<"schedule", "sub", 1, 2024, "-W", 5, 2>>
    /\ \E k \in WeekCalls("next") :
          store_calls[k].key = <<"schedule", "sub", 1, 2025, "-W", 0, 1>>

\* the store calls of window w for the class with identifier n
ClassCallsFor(w, n) == {k \in ClassCalls(w) : store_calls[k].value[1].id = n}

\* the operations of RedisCache that write: there is no operation that reads
WriteOps == {"store_schedule_with_week", "store_class"}

\* C14: a window gets at most one week snapshot call and at most one call per
\* class of its schedule, failed calls included, and by the end of a run whose
\* fetches both succeeded exactly one of each: 1 + number of classes calls per
\* window; no call reads the cache.
C14_OneStoreCallEach ==
    /\ \A k \in 1 .. Len(store_calls) : store_calls[k].op \in WriteOps
    /\ \A w \in Windows :
          /\ Cardinality(WeekCalls(w)) <= 1
          /\ \A k \in ClassCalls(w) :
                /\ Cardinality(ClassCallsFor(w, store_calls[k].value[1].id)) = 1
                /\ ClassesWithId(schedule[w], store_calls[k].value[1].id) # {}
          /\ RunSucceeded =>
                /\ Cardinality(WeekCalls(w)) = 1
                /\ Cardinality(ClassCalls(w)) = Len(schedule[w])
                /\ Cardinality(StoreCallsFor(w)) = 1 + Len(schedule[w])

\* a finished run whose current week has two classes and three store calls,
\* the first class's call having failed
C14_Witness ==
    /\ RunSucceeded
    /\ Len(schedule["current"]) = 2
    /\ Cardinality(StoreCallsFor("current")) = 3
    /\ \E k \in ClassCalls("current") : store_calls[k].result = "err"

\* C15: the number of classes the run reports as cached for a window is the
\* number of that window's classes whose store call succeeded.
C15_ReportedIsStored ==
    RunSucceeded =>
        \A i \in 1 .. Len(summary) :
            summary[i].cached
                = Cardinality({k \in ClassCalls(summary[i].window) :
                                   store_calls[k].result = "ok"})

\* the requests sent for window w
RequestsFor(w) == SelectSeq(requests, LAMBDA r : r.window = w)

RunExited == RunFailed \/ RunSucceeded

\* C16: when every fetch and every store call returns, the run reaches an
\* exit, with code 0 or non-zero, and at no time has it sent more than one
\* request for a window, also not when a request failed.
C16_SinglePassTerminates ==
    /\ <>(RunExited /\ exit_code # <<>>)
    /\ [](\A w \in Windows : Len(RequestsFor(w)) <= 1)
    /\ [](\A w \in Windows : fetch_result[w] = "err" =>
              Len(RequestsFor(w)) = 1 /\ RunFailed)

\* the run has exited after the next week's request failed: one request was
\* sent for each window and none again
C16_Witness ==
    /\ RunExited
    /\ fetch_result = [w \in Windows |-> IF w = "next" THEN "err" ELSE "ok"]
    /\ Len(requests) = 2
    /\ \A w \in Windows : Len(RequestsFor(w)) = 1

\* the place of a store call in the order of main: current week snapshot,
\* current week classes, next week snapshot, next week classes
Rank(call) ==
    (IF call.window = "current" THEN 0 ELSE 2)
        + (IF call.op = "store_schedule_with_week" THEN 1 ELSE 2)

\* C17: a store call is made only after both fetches have returned Ok, so a
\* run with a failed fetch has made none, and the store calls are made in the
\* order current week snapshot, current week classes, next week snapshot,
\* next week classes.
C17_StoresAfterBothFetches ==
    /\ store_calls # <<>> => BothFetched
    /\ (\E w \in Windows : fetch_result[w] # "ok") => store_calls = <<>>
    /\ RunFailed => store_calls = <<>>
    /\ \A k \in 1 .. Len(store_calls) - 1 :
          /\ Rank(store_calls[k]) <= Rank(store_calls[k + 1])
          /\ store_calls[k + 1].op = "store_schedule_with_week" =>
                Rank(store_calls[k]) < Rank(store_calls[k + 1])
    /\ store_calls # <<>> => Rank(store_calls[1]) = 1

\* a finished run that made all four kinds of store calls
C17_Witness ==
    /\ RunSucceeded
    /\ BothFetched
    /\ {Rank(store_calls[k]) : k \in 1 .. Len(store_calls)} = 1 .. 4

====
